---------------------------- MODULE Spec2Model ----------------------------
(***************************************************************************)
(* title_parser: SRT / WebVTT timecode and cue parsing.                    *)
(*                                                                         *)
(* A Rust string is modelled as a sequence of characters, each character   *)
(* being a one-element TLA+ string ("0", ":", "\n", ...).  The character   *)
(* U+0660 ARABIC-INDIC DIGIT ZERO is written "U+0660".                     *)
(***************************************************************************)
EXTENDS Integers, Sequences, FiniteSets, TLC

VARIABLES
    input,   \* the &str the operation is called on
    pc,      \* the last operation that returned: "start" before any call
    result,  \* what that operation returned (or that it panicked)
    stdout   \* what the process has written to standard output so far

vars == <<input, pc, result, stdout>>

-----------------------------------------------------------------------------
(* Characters and character classes of the regular expressions.            *)

Digits09 == {"0", "1", "2", "3", "4", "5", "6", "7", "8", "9"}

Digits05 == {"0", "1", "2", "3", "4", "5"}

Letters ==
    {"a", "b", "c", "d", "e", "f", "g", "h", "i", "j", "k", "l", "m",
     "n", "o", "p", "q", "r", "s", "t", "u", "v", "w", "x", "y", "z",
     "A", "B", "C", "D", "E", "F", "G", "H", "I", "J", "K", "L", "M",
     "N", "O", "P", "Q", "R", "S", "T", "U", "V", "W", "X", "Y", "Z"}

\* A decimal digit outside ASCII (general category Nd).
ArabicIndicZero == "U+0660"

\* \d of the regex crate is Unicode aware: it is \p{Nd}, not [0-9].
UnicodeDigit == Digits09 \cup {ArabicIndicZero}

\* [0-9:\.,] of the timing-line pattern.
TimestampClass == Digits09 \cup {":", ".", ","}

\* [0-9a-zA-Z\.,:_\-] of the tag patterns.
TagTokenClass == Digits09 \cup Letters \cup {".", ",", ":", "_", "-"}

\* char::is_whitespace, as far as the characters of the model go.
WhiteSpace == {" ", "\n", "\t", "\r"}

DigitValue(c) ==
    CASE c = "0" -> 0 [] c = "1" -> 1 [] c = "2" -> 2 [] c = "3" -> 3
      [] c = "4" -> 4 [] c = "5" -> 5 [] c = "6" -> 6 [] c = "7" -> 7
      [] c = "8" -> 8 [] c = "9" -> 9

\* u32 is the width of hh, mm, ss, ttt and of the result of to_seconds.  2^32
\* is beyond the integers of the model checker, so it is counted in units of
\* 2^16: a natural number fits in a u32 when it has no third 16-bit limb.
Limb16 == 65536

FitsU32(v) == (v \div Limb16) \div Limb16 = 0

\* v modulo 2^32
WrapU32(v) ==
    LET q == (v \div Limb16) \div Limb16
    IN  IF q = 0 THEN v ELSE v - q * Limb16 * Limb16

None == [kind |-> "None"]

Some(v) == [kind |-> "Some", value |-> v]

Ok(v) == [kind |-> "Ok", value |-> v]

Err(e) == [kind |-> "Err", error |-> e]

\* What a function that returns a plain value (a u32, a String) returns.
Returned(v) == [kind |-> "Returned", value |-> v]

\* An unwrap() on a None or on an Err: the thread panics, nothing is returned.
Panic == [kind |-> "Panic"]

-----------------------------------------------------------------------------
(* timecode.rs                                                             *)

AllIn(s, from, to, class) == \A i \in from..to : s[i] \in class

\* str::parse::<u32>() of a capture group: only ASCII digits are accepted
\* (the groups never hold a sign), the value is accumulated digit by digit
\* and a value that does not fit in a u32 is an error.
RECURSIVE ParseDigits(_, _, _)
ParseDigits(s, i, acc) ==
    IF i > Len(s) THEN Ok(acc)
    ELSE IF s[i] \notin Digits09 THEN Err("InvalidDigit")
    ELSE LET next == acc * 10 + DigitValue(s[i])
         IN  IF ~FitsU32(next) THEN Err("PosOverflow")
             ELSE ParseDigits(s, i + 1, next)

ParseU32(s) == IF Len(s) = 0 THEN Err("Empty") ELSE ParseDigits(s, 1, 0)

\* re.captures(self) for
\*   ^((\d{2,4}):)?([0-5][0-9]):([0-5][0-9])[\.,](\d{3})$
\* Both anchors are absolute (no multi-line flag), and everything after the
\* optional hour group has a fixed length of 9, so the groups are decided by
\* the length of the text: the last 9 characters are MM:SS.mmm, and what is
\* before them, if anything, is 2 to 4 digits and a colon.
TimecodeCaptures(s) ==
    LET n == Len(s)
        tailOk ==
            /\ n >= 9
            /\ s[n - 8] \in Digits05 /\ s[n - 7] \in Digits09
            /\ s[n - 6] = ":"
            /\ s[n - 5] \in Digits05 /\ s[n - 4] \in Digits09
            /\ s[n - 3] \in {".", ","}
            /\ AllIn(s, n - 2, n, UnicodeDigit)
        hourOk ==
            /\ n - 10 \in 2..4
            /\ AllIn(s, 1, n - 10, UnicodeDigit)
            /\ s[n - 9] = ":"
    IN  IF tailOk /\ (n = 9 \/ hourOk)
        THEN Some([g2 |-> IF n = 9 THEN None ELSE Some(SubSeq(s, 1, n - 10)),
                   g3 |-> SubSeq(s, n - 8, n - 7),
                   g4 |-> SubSeq(s, n - 5, n - 4),
                   g5 |-> SubSeq(s, n - 2, n)])
        ELSE None

\* The struct TimeCode.
TimeCode(string, hh, mm, ss, ttt) ==
    [string |-> string, hh |-> hh, mm |-> mm, ss |-> ss, ttt |-> ttt]

\* to_timecode with the minutes read from the capture group of the seconds.
to_timecode_MinutesFromGroup4(s) ==
    LET caps == TimecodeCaptures(s)
    IN  IF caps.kind = "None" THEN Err("invalid timecode")
        ELSE LET c  == caps.value
                 hh == IF c.g2.kind = "Some" THEN ParseU32(c.g2.value) ELSE Ok(0)
                 mm == ParseU32(c.g4)
                 ss == ParseU32(c.g4)
                 ttt == ParseU32(c.g5)
             IN  IF "Err" \in {hh.kind, mm.kind, ss.kind, ttt.kind}
                 THEN Panic
                 ELSE Ok(TimeCode(s, hh.value, mm.value, ss.value, ttt.value))

\* <str as TimeCodeTrait>::to_timecode
to_timecode(s) ==
    LET caps == TimecodeCaptures(s)
    IN  IF caps.kind = "None" THEN Err("invalid timecode")
        ELSE LET c  == caps.value
                 hh == IF c.g2.kind = "Some" THEN ParseU32(c.g2.value) ELSE Ok(0)
                 mm == ParseU32(c.g3)
                 ss == ParseU32(c.g4)
                 ttt == ParseU32(c.g5)
             IN  IF "Err" \in {hh.kind, mm.kind, ss.kind, ttt.kind}
                 THEN Panic
                 ELSE Ok(TimeCode(s, hh.value, mm.value, ss.value, ttt.value))

\* The seconds rounded to the nearest second instead of down.
SecondsSum_Rounded(tc) ==
    (tc.hh * 60 * 60) + (tc.mm * 60) + tc.ss + (IF tc.ttt >= 500 THEN 1 ELSE 0)

\* TimeCode::to_seconds: (self.hh * 60 * 60) + (self.mm * 60) + (self.ss) in
\* u32 arithmetic.  The value, had nothing overflowed:
SecondsSum(tc) == (tc.hh * 60 * 60) + (tc.mm * 60) + tc.ss

\* What the build can make of an overflow of one of the five operations: a
\* panic with overflow checks, a wrapped value without.
OverflowOutcomes(tc) ==
    LET h1 == tc.hh * 60
        h2 == h1 * 60
        m1 == tc.mm * 60
        s1 == h2 + m1
        s2 == s1 + tc.ss
    IN  IF \E v \in {h1, h2, m1, s1, s2} : ~FitsU32(v)
        THEN {"panic", "wrap"}
        ELSE {"exact"}

to_seconds(tc, outcome) ==
    IF outcome = "panic" THEN Panic ELSE Returned(WrapU32(SecondsSum(tc)))

-----------------------------------------------------------------------------
(* lib.rs: the text sanitizer                                              *)

\* The index after the longest run of characters of `class` that starts at i.
RECURSIVE RunEnd(_, _, _)
RunEnd(s, i, class) ==
    IF i <= Len(s) /\ s[i] \in class THEN RunEnd(s, i + 1, class) ELSE i

\* Whether the literal `lit` is in s at index i.
LiteralAt(s, i, lit) ==
    /\ i + Len(lit) - 1 <= Len(s)
    /\ \A k \in 1..Len(lit) : s[i + k - 1] = lit[k]

\* The index after a match at i of <[0-9a-zA-Z\.,:_\-]+>, or 0.  The class
\* holds neither "<" nor ">", so the greedy run is the only way to match.
OpenTagAt(s, i) ==
    LET e == RunEnd(s, i + 1, TagTokenClass)
    IN  IF i <= Len(s) /\ s[i] = "<" /\ e > i + 1 /\ e <= Len(s) /\ s[e] = ">"
        THEN e + 1 ELSE 0

\* The index after a match at i of </[0-9a-zA-Z\.,:_\-]+>, or 0.
CloseTagAt(s, i) ==
    LET e == RunEnd(s, i + 2, TagTokenClass)
    IN  IF LiteralAt(s, i, <<"<", "/">>) /\ e > i + 2 /\ e <= Len(s) /\ s[e] = ">"
        THEN e + 1 ELSE 0

\* Regex::replace_all(text, "") for the two tag patterns: the leftmost
\* matches, none overlapping, found in one scan from left to right.
RECURSIVE RemoveOpenTags(_, _)
RemoveOpenTags(s, i) ==
    IF i > Len(s) THEN <<>>
    ELSE IF OpenTagAt(s, i) # 0 THEN RemoveOpenTags(s, OpenTagAt(s, i))
    ELSE <<s[i]>> \o RemoveOpenTags(s, i + 1)

RECURSIVE RemoveCloseTags(_, _)
RemoveCloseTags(s, i) ==
    IF i > Len(s) THEN <<>>
    ELSE IF CloseTagAt(s, i) # 0 THEN RemoveCloseTags(s, CloseTagAt(s, i))
    ELSE <<s[i]>> \o RemoveCloseTags(s, i + 1)

\* str::replace(es, ""): every non-overlapping occurrence, left to right.
RECURSIVE ReplaceWithEmpty(_, _, _)
ReplaceWithEmpty(s, i, es) ==
    IF i > Len(s) THEN <<>>
    ELSE IF LiteralAt(s, i, es) THEN ReplaceWithEmpty(s, i + Len(es), es)
    ELSE <<s[i]>> \o ReplaceWithEmpty(s, i + 1, es)

\* The pattern without its ^: "- " removed wherever it is.
RemoveLeadingDash_Unanchored(s) == ReplaceWithEmpty(s, 1, <<"-", " ">>)

\* Regex::replace_all(text, "") for ^\- : without the multi-line flag ^ is
\* the start of the text only, so at most one match.
RemoveLeadingDash(s) ==
    IF LiteralAt(s, 1, <<"-", " ">>) THEN SubSeq(s, 3, Len(s)) ELSE s

REGEX_TO_PRUNE == <<"open tag", "close tag", "leading dash">>

ES_TO_PRUNE ==
    << <<"&", "a", "m", "p", ";">>,
       <<"&", "l", "t", ";">>,
       <<"&", "g", "t", ";">>,
       <<"&", "l", "r", "m", ";">>,
       <<"&", "r", "l", "m", ";">>,
       <<"&", "n", "b", "s", "p", ";">> >>

\* One pass of the first loop of sanitize_text.
PruneRegex(text, regex) ==
    CASE regex = "open tag"     -> RemoveOpenTags(text, 1)
      [] regex = "close tag"    -> RemoveCloseTags(text, 1)
      [] regex = "leading dash" -> RemoveLeadingDash(text)

\* The first loop of sanitize_text, from pattern k on.
RECURSIVE PruneRegexes(_, _)
PruneRegexes(text, k) ==
    IF k > Len(REGEX_TO_PRUNE) THEN text
    ELSE PruneRegexes(PruneRegex(text, REGEX_TO_PRUNE[k]), k + 1)

\* The second loop of sanitize_text, from escape k on.
RECURSIVE PruneEscapes(_, _)
PruneEscapes(text, k) ==
    IF k > Len(ES_TO_PRUNE) THEN text
    ELSE PruneEscapes(ReplaceWithEmpty(text, 1, ES_TO_PRUNE[k]), k + 1)

sanitize_text(in) == PruneEscapes(PruneRegexes(in, 1), 1)

-----------------------------------------------------------------------------
(* lib.rs: the cue parser                                                  *)

\* The index of the first "\n" at or after i, Len(s) + 1 when there is none:
\* where a greedy .* or .+ that starts at i stops.
RECURSIVE LineEnd(_, _)
LineEnd(s, i) ==
    IF i <= Len(s) /\ s[i] # "\n" THEN LineEnd(s, i + 1) ELSE i

Arrow == <<" ", "-", "-", ">", " ">>

\* The match with the text taken from the end of the end timestamp, the
\* cue-settings fragment in it.
TimingAt_SettingsInText(s, q) ==
    LET e3 == RunEnd(s, q, TimestampClass)
        q4 == e3 + Len(Arrow)
        e4 == RunEnd(s, q4, TimestampClass)
        e5 == IF e4 <= Len(s) /\ s[e4] = " " THEN LineEnd(s, e4) ELSE e4
    IN  IF /\ e3 - q >= 9
           /\ LiteralAt(s, e3, Arrow)
           /\ e4 - q4 >= 9
           /\ e5 <= Len(s) /\ s[e5] = "\n"
        THEN Some([g1 |-> None,
                   g2 |-> <<q, e5>>,
                   g3 |-> <<q, e3>>,
                   g4 |-> <<q4, e4>>,
                   g5 |-> IF e5 > e4 THEN Some(<<e4, e5>>) ELSE None,
                   g6 |-> <<e4, Len(s) + 1>>])
        ELSE None

\* A match, starting at q, of
\*   (([0-9:\.,]{9,}) --> ([0-9:\.,]{9,})( .*)?)((\n.*)+)
\* Each greedy run is followed by a character outside its class (" " after
\* the timestamps, "\n" after .*), so giving back characters never helps and
\* the longest runs are the only candidates.  (\n.*)+ takes the whole rest
\* of the text.  Groups are [from, to) index pairs.
TimingAt(s, q) ==
    LET e3 == RunEnd(s, q, TimestampClass)
        q4 == e3 + Len(Arrow)
        e4 == RunEnd(s, q4, TimestampClass)
        e5 == IF e4 <= Len(s) /\ s[e4] = " " THEN LineEnd(s, e4) ELSE e4
    IN  IF /\ e3 - q >= 9
           /\ LiteralAt(s, e3, Arrow)
           /\ e4 - q4 >= 9
           /\ e5 <= Len(s) /\ s[e5] = "\n"
        THEN Some([g1 |-> None,
                   g2 |-> <<q, e5>>,
                   g3 |-> <<q, e3>>,
                   g4 |-> <<q4, e4>>,
                   g5 |-> IF e5 > e4 THEN Some(<<e4, e5>>) ELSE None,
                   g6 |-> <<e5, Len(s) + 1>>])
        ELSE None

\* A match of the whole pattern starting at p: (.+\n)? is greedy, so the
\* branch that takes the rest of the line at p as group 1 is tried first,
\* and the branch without group 1 only when that one fails.
CueMatchAt(s, p) ==
    LET n == LineEnd(s, p)
        withLine == IF n > p /\ n <= Len(s) THEN TimingAt(s, n + 1) ELSE None
    IN  IF withLine.kind = "Some"
        THEN Some([withLine.value EXCEPT !.g1 = Some(<<p, n + 1>>)])
        ELSE TimingAt(s, p)

\* re.captures(self): the pattern is not anchored, the match is the one that
\* starts leftmost.
RECURSIVE CueCapturesFrom(_, _)
CueCapturesFrom(s, p) ==
    IF p > Len(s) THEN None
    ELSE IF CueMatchAt(s, p).kind = "Some" THEN CueMatchAt(s, p)
    ELSE CueCapturesFrom(s, p + 1)

CueCaptures(s) == CueCapturesFrom(s, 1)

\* Match::as_str of a group.
GroupStr(s, g) == SubSeq(s, g[1], g[2] - 1)

\* generate_timecodes: None as soon as one of the two is not Ok.  A panic of
\* to_timecode goes through it.
generate_timecodes(s, caps) ==
    LET start == to_timecode(GroupStr(s, caps.g3))
        end   == to_timecode(GroupStr(s, caps.g4))
    IN  IF start.kind = "Panic" THEN Panic
        ELSE IF start.kind = "Err" THEN None
        ELSE IF end.kind = "Panic" THEN Panic
        ELSE IF end.kind = "Err" THEN None
        ELSE Some(<<start.value, end.value>>)

\* str::trim: without the leading and the trailing white space.
RECURSIVE TrimStart(_)
TrimStart(s) ==
    IF Len(s) > 0 /\ s[1] \in WhiteSpace THEN TrimStart(Tail(s)) ELSE s

RECURSIVE TrimEnd(_)
TrimEnd(s) ==
    IF Len(s) > 0 /\ s[Len(s)] \in WhiteSpace
    THEN TrimEnd(SubSeq(s, 1, Len(s) - 1)) ELSE s

\* str::trim_start in the place of str::trim.
Trim_StartOnly(s) == TrimStart(s)

Trim(s) == TrimEnd(TrimStart(s))

\* str::split('\n'), collected: the pieces between the newlines, one piece
\* (the whole text, possibly empty) when there is no newline.
RECURSIVE Split(_)
Split(s) ==
    LET n == LineEnd(s, 1)
    IN  IF n > Len(s) THEN <<s>>
        ELSE <<SubSeq(s, 1, n - 1)>> \o Split(SubSeq(s, n + 1, Len(s)))

\* lines.iter().map(|i| sanitize_text(i)).collect()
CleanLines(lines) == [k \in 1..Len(lines) |-> sanitize_text(lines[k])]

\* clean_lines.join("\n")
RECURSIVE Join(_)
Join(lines) ==
    IF Len(lines) = 0 THEN <<>>
    ELSE IF Len(lines) = 1 THEN lines[1]
    ELSE lines[1] \o <<"\n">> \o Join(Tail(lines))

\* The struct Cue.
Cue(start, end, text) == [start |-> start, end |-> end, text |-> text]

\* <str as CueTrait>::to_cue, the value it returns.
to_cue(s) ==
    LET caps == CueCaptures(s)
    IN  IF caps.kind = "None" THEN Err("not a valid cue")
        ELSE LET cues  == GroupStr(s, caps.value.g6)
                 times == generate_timecodes(s, caps.value)
                 lines == Split(Trim(cues))
                 text  == Join(CleanLines(lines))
             IN  IF times.kind = "Panic" THEN Panic
                 ELSE IF times.kind = "None" THEN Err("not a valid cue")
                 ELSE Ok(Cue(times.value[1], times.value[2], text))

\* println!("{:?}", caps) in to_cue: what a call on s appends to standard
\* output.  It runs as soon as the pattern has matched, before the timecodes
\* are looked at.
to_cue_prints(s) ==
    LET caps == CueCaptures(s)
    IN  IF caps.kind = "None" THEN <<>> ELSE <<caps.value>>

-----------------------------------------------------------------------------
(* The texts the operations are called on.                                 *)

\* Hour fields of the timecodes have up to MaxHourDigits digits.
MaxHourDigits == 5

\* Cue blocks have up to MaxTextLines lines after their timing line.
MaxTextLines == 2

\* Text lines given to the sanitizer alone are up to MaxPieces pieces long.
MaxPieces == 3

\* All sequences over S of length 0 to n.
SeqsUpTo(S, n) == UNION {[1..k -> S] : k \in 0..n}

\* The concatenation of a sequence of texts.
RECURSIVE Concat(_)
Concat(parts) == IF Len(parts) = 0 THEN <<>> ELSE Head(parts) \o Concat(Tail(parts))

HourFields ==
    {<<>>}
    \cup {d \o <<":">> : d \in SeqsUpTo({"0", "9"}, MaxHourDigits) \ {<<>>}}
    \cup {<<"0", "a", ":">>, <<"1", ArabicIndicZero, ":">>, <<"0", "0">>}

MinuteSecondFields ==
    { <<"0", "0", ":", "0", "0">>,
      <<"0", "9", ":", "0", "0">>,
      <<"5", "0", ":", "0", "0">>,
      <<"5", "9", ":", "0", "0">>,
      <<"6", "0", ":", "0", "0">>,
      <<"6", "9", ":", "0", "0">>,
      <<"0", "0", ":", "0", "9">>,
      <<"0", "0", ":", "5", "0">>,
      <<"0", "0", ":", "5", "9">>,
      <<"0", "0", ":", "6", "0">>,
      <<"0", "0", ":", "6", "9">>,
      <<"5", "9", ":", "5", "9">>,
      <<"6", "0", ":", "6", "0">>,
      <<"5", ":", "0", "0">>,
      <<"0", "0", ":", "5">>,
      <<"0", "a", ":", "0", "0">>,
      <<"0", "0", "-", "0", "0">> }

MillisecondFields ==
    { c \o f : c \in {<<".">>, <<",">>, <<":">>},
              f \in {<<"0", "0", "0">>, <<"9", "9", "9">>, <<"9", "9">>,
                      <<"0", "0", ArabicIndicZero>>} }

\* What is put around the fields: nothing, or one character before or after.
Affixes == {<< <<>>, <<>> >>, << <<" ">>, <<>> >>, << <<>>, <<"\n">> >>, << <<>>, <<"0">> >>}

\* The texts of the tests and of the documentation tests of timecode.rs.
TestTimecodes ==
    { <<"0", "1", ":", "0", "2", ":", "0", "3", ".", "0", "0", "4">>,
      <<"0", "2", ":", "0", "3", ".", "0", "0", "4">>,
      <<"0", "1", ":", "0", "2", ":", "0", "3">>,
      <<"0", "a", ":", "0", "2", ":", "0", "3", ".", "0", "0", "1">>,
      <<"0", "1", ":", "0", "2", ":", "6", "0", ".", "0", "0", "4">>,
      <<"0", "1", ":", "6", "0", ":", "0", "3", ".", "0", "0", "4">>,
      <<"0", "0", ":", "0", "1", ":", "1", "4", ".", "8", "1", "5">>,
      <<"0", "0", ":", "0", "1", ":", "6", "7", ".", "8", "1", "5">> }

TimecodeInputs ==
    {a[1] \o h \o ms \o f \o a[2] :
        a \in Affixes, h \in HourFields, ms \in MinuteSecondFields,
        f \in MillisecondFields}
    \cup TestTimecodes

SanitizerPieces ==
    { <<"<">>,
      <<"b", ">">>,
      <<"<", "b", ">">>,
      <<"<", "/", "b", ">">>,
      <<"-", " ">>,
      <<"&">>,
      <<"a", "m", "p", ";">>,
      <<"&", "l", "t", ";">>,
      <<"x">> }

\* The text of the test of sanitize_text, its non-ASCII text written "x".
TestLine ==
    <<"<", "c", ".", "j", "a", "p", "a", "n", "e", "s", "e", ">", "<", "c", ".", "b", "g", "_", "s", "o", "m", "e", ">", "&", "l", "r", "m", ";", "x", "<", "/", "c", ".", "b", "g", "_", "s", "o", "m", "e", ">", "<", "/", "c", ".", "j", "a", "p", "a", "n", "e", "s", "e", ">">>

LineInputs == {Concat(ps) : ps \in SeqsUpTo(SanitizerPieces, MaxPieces)} \cup {TestLine}

StartTimestamps ==
    { <<"0", "0", ":", "0", "1", ".", "0", "0", "0">>,
      <<"0", "0", ":", "6", "0", ".", "0", "0", "0">>,
      <<"0", ":", "0", "1", ".", "0", "0", "0">> }

EndTimestamps ==
    { <<"0", "0", ":", "0", "2", ",", "5", "0", "0">>,
      <<"0", "0", ":", "0", "2", ".", "5", "0", "0", "0">> }

\* What is around the two timestamps of a timing line: <<before, between,
\* after>>.  The first four are timing lines with the four cue settings
\* fragments.
CueSettings == {<<>>, <<" ">>, <<" ", "a", ":", "5">>, <<" ", "-", "-", ">", " ">>}

TimingLineShapes ==
    {<< <<>>, Arrow, f >> : f \in CueSettings}
    \cup {<< <<"x">>, Arrow, <<>> >>,
          << <<>>, <<" ", "-", ">", " ">>, <<>> >>,
          << <<>>, Arrow, <<"x">> >>}

TimingLines ==
    {sh[1] \o a \o sh[2] \o b \o sh[3] :
        sh \in TimingLineShapes, a \in StartTimestamps, b \in EndTimestamps}

\* A first line before the timing line.
IdentifierLines ==
    { <<"1">>,
      <<"0", "0", ":", "0", "5", ".", "0", "0", "0", " ", "-", "-", ">", " ", "0", "0", ":", "0", "6", ".", "0", "0", "0">>,
      <<"x", "0", "0", ":", "0", "5", ".", "0", "0", "0", " ", "-", "-", ">", " ", "0", "0", ":", "0", "6", ".", "0", "0", "0", " ", "a">> }

\* The lines after the timing line.
TextLines ==
    { <<>>,
      <<" ">>,
      <<"h", "i">>,
      <<"-", " ", "<", "b", ">", "a">>,
      <<"0", "0", ":", "0", "3", ".", "0", "0", "0", " ", "-", "-", ">", " ", "0", "0", ":", "0", "4", ".", "0", "0", "0">> }

\* lines, each with a "\n" before it
RECURSIVE WithNewlines(_)
WithNewlines(lines) ==
    IF Len(lines) = 0 THEN <<>>
    ELSE <<"\n">> \o Head(lines) \o WithNewlines(Tail(lines))

\* The texts of the documentation test of to_cue.
TestCues ==
    { <<"1", " ", "-", " ", "C", "u", "e", "\n", "0", "0", ":", "0", "1", ":", "1", "4", ".", "8", "1", "5", " ", "-", "-", ">", " ", "0", "0", ":", "0", "1", ":", "1", "8", ".", "1", "1", "4", "\n", "-", " ", "I", "'", "m", " ", "t", "e", "x", "t", " ", "f", "o", "r", " ", "a", " ", "c", "u", "e", "\n", "-", " ", "M", "e", " ", "t", "o", "o", "!">>,
      <<"0", "0", ":", "0", "1", ":", "1", "4", ".", "8", "1", "5", " ", "-", "-", ">", " ", "0", "0", ":", "0", "1", ":", "1", "8", ".", "1", "1", "4", "\n", "-", " ", "I", "'", "m", " ", "t", "e", "x", "t", " ", "f", "o", "r", " ", "a", " ", "c", "u", "e", "\n", "-", " ", "M", "e", " ", "t", "o", "o", "!">> }

CueInputs ==
    {id \o tl \o WithNewlines(txt) :
        id \in {<<>>} \cup {l \o <<"\n">> : l \in IdentifierLines},
        tl \in TimingLines,
        txt \in SeqsUpTo(TextLines, MaxTextLines)}
    \cup TestCues

-----------------------------------------------------------------------------
(* The calls.                                                              *)

InitOn(inputs) ==
    /\ input \in inputs
    /\ pc = "start"
    /\ result = None
    /\ stdout = <<>>

\* text.to_timecode()
ToTimecode ==
    /\ pc = "start"
    /\ result' = to_timecode(input)
    /\ pc' = "to_timecode"
    /\ UNCHANGED <<input, stdout>>

\* tc.to_seconds() on the TimeCode that to_timecode returned
ToSeconds ==
    /\ pc = "to_timecode"
    /\ result.kind = "Ok"
    /\ \E outcome \in OverflowOutcomes(result.value) :
            result' = to_seconds(result.value, outcome)
    /\ pc' = "to_seconds"
    /\ UNCHANGED <<input, stdout>>

\* text.to_cue()
ToCue ==
    /\ pc = "start"
    /\ result' = to_cue(input)
    /\ stdout' = stdout \o to_cue_prints(input)
    /\ pc' = "to_cue"
    /\ UNCHANGED input

\* sanitize_text(text)
SanitizeText ==
    /\ pc = "start"
    /\ result' = Returned(sanitize_text(input))
    /\ pc' = "sanitize_text"
    /\ UNCHANGED <<input, stdout>>

Init == InitOn(TimecodeInputs \cup CueInputs \cup LineInputs)

Next == ToTimecode \/ ToSeconds \/ ToCue \/ SanitizeText

Spec == Init /\ [][Next]_vars

\* The timecode parser alone, on timecode texts.
SpecTimeCode == InitOn(TimecodeInputs) /\ [][ToTimecode \/ ToSeconds]_vars

\* The cue parser alone, on cue blocks.
SpecCue == InitOn(CueInputs) /\ [][ToCue]_vars

\* The sanitizer alone, on text lines.
SpecSanitize == InitOn(LineInputs) /\ [][SanitizeText]_vars

-----------------------------------------------------------------------------
(* The timecode parser: C1, C2, C3, C9.                                    *)

\* The decimal value of a text of the digits 0 to 9.
RECURSIVE DecimalValue(_)
DecimalValue(d) ==
    IF Len(d) = 0 THEN 0
    ELSE DecimalValue(SubSeq(d, 1, Len(d) - 1)) * 10 + DigitValue(d[Len(d)])

\* The fields of a text of the form [H:]MM:SS<sep>mmm, counted from its end.
HourField(s) == IF Len(s) > 9 THEN SubSeq(s, 1, Len(s) - 10) ELSE <<>>

MinuteField(s) == SubSeq(s, Len(s) - 8, Len(s) - 7)

SecondField(s) == SubSeq(s, Len(s) - 5, Len(s) - 4)

MillisecondField(s) == SubSeq(s, Len(s) - 2, Len(s))

IsDecimal(d) == \A i \in 1..Len(d) : d[i] \in Digits09

\* s has the form [H:]MM:SS<sep>mmm: H of 2 to 4 decimal digits, MM and SS
\* of two digits and in 00..59, <sep> "." or ",", mmm of three decimal
\* digits, and nothing else.
WellFormedTimecode(s) ==
    /\ Len(s) \in {9, 12, 13, 14}
    /\ IsDecimal(HourField(s))
    /\ Len(s) > 9 => s[Len(s) - 9] = ":"
    /\ IsDecimal(MinuteField(s)) /\ DecimalValue(MinuteField(s)) <= 59
    /\ s[Len(s) - 6] = ":"
    /\ IsDecimal(SecondField(s)) /\ DecimalValue(SecondField(s)) <= 59
    /\ s[Len(s) - 3] \in {".", ","}
    /\ IsDecimal(MillisecondField(s))

\* C1: on a text of the form [H:]MM:SS<sep>mmm, to_timecode returns Ok with a
\* TimeCode whose hh, mm, ss, ttt are the decimal values of the fields (hh = 0
\* without an hour field) and whose string is the text itself.
C1_WellFormedParses ==
    (pc = "to_timecode" /\ WellFormedTimecode(input)) =>
        /\ result.kind = "Ok"
        /\ result.value.string = input
        /\ result.value.hh = DecimalValue(HourField(input))
        /\ result.value.mm = DecimalValue(MinuteField(input))
        /\ result.value.ss = DecimalValue(SecondField(input))
        /\ result.value.ttt = DecimalValue(MillisecondField(input))

\* to_timecode has returned for a text with a four-digit hour field, minutes
\* and seconds that differ, and "," before the milliseconds.
C1_Witness ==
    /\ pc = "to_timecode"
    /\ WellFormedTimecode(input)
    /\ Len(HourField(input)) = 4
    /\ input[Len(input) - 3] = ","
    /\ result.kind = "Ok"
    /\ result.value.hh = 9099
    /\ result.value.mm = 59 /\ result.value.ss = 0 /\ result.value.ttt = 999

\* C2: on a text that has not the form [H:]MM:SS<sep>mmm, to_timecode returns
\* the error "invalid timecode".
C2_MalformedIsError ==
    (pc = "to_timecode" /\ ~WellFormedTimecode(input)) =>
        result = Err("invalid timecode")

\* C3: to_seconds of a TimeCode that to_timecode returned is exactly
\* H*3600 + MM*60 + SS of the fields of the text, whatever the milliseconds:
\* no rounding, no overflow of the u32.
C3_SecondsExact ==
    pc = "to_seconds" =>
        /\ result.kind = "Returned"
        /\ result.value = DecimalValue(HourField(input)) * 3600
                           + DecimalValue(MinuteField(input)) * 60
                           + DecimalValue(SecondField(input))

\* to_seconds has returned for the largest TimeCode, 9999:59:59,999.
C3_Witness ==
    /\ pc = "to_seconds"
    /\ DecimalValue(HourField(input)) = 9999
    /\ DecimalValue(MinuteField(input)) = 59
    /\ DecimalValue(SecondField(input)) = 59
    /\ DecimalValue(MillisecondField(input)) = 999
    /\ result = Returned(35999999)

\* C9: no call panics.
C9_NeverPanics == result.kind # "Panic"

-----------------------------------------------------------------------------
(* The text sanitizer: C8.                                                 *)

\* Whether the literal lit occurs in s.
Occurs(lit, s) ==
    \E i \in 1..Len(s) :
        /\ i + Len(lit) - 1 <= Len(s)
        /\ SubSeq(s, i, i + Len(lit) - 1) = lit

\* Whether s holds "<", then `after`, then one token character or more, then
\* ">": an opening tag with after = <<>>, a closing tag with after = <<"/">>.
HoldsTag(s, after) ==
    \E i \in 1..Len(s), j \in 1..Len(s) :
        /\ s[i] = "<" /\ s[j] = ">"
        /\ j > i + Len(after) + 1
        /\ SubSeq(s, i + 1, i + Len(after)) = after
        /\ \A k \in (i + Len(after) + 1)..(j - 1) : s[k] \in TagTokenClass

NamedEntities == {ES_TO_PRUNE[k] : k \in 1..Len(ES_TO_PRUNE)}

\* s holds no opening tag, no closing tag, no leading "- " and none of the
\* six named entities.
IsSanitized(s) ==
    /\ ~HoldsTag(s, <<>>)
    /\ ~HoldsTag(s, <<"/">>)
    /\ ~(Len(s) >= 2 /\ s[1] = "-" /\ s[2] = " ")
    /\ \A e \in NamedEntities : ~Occurs(e, s)

\* C8 as stated: what sanitize_text returns holds no tag, no leading "- " and
\* no named entity, and sanitize_text returns it unchanged.
C8_SanitizeIdempotent ==
    pc = "sanitize_text" =>
        /\ IsSanitized(result.value)
        /\ sanitize_text(result.value) = result.value

\* C8 as amended: sanitize_text returns unchanged a line that holds no tag,
\* no leading "- " and no named entity.
C8_SanitizedLineUnchanged ==
    (pc = "sanitize_text" /\ IsSanitized(input)) => result.value = input

\* sanitize_text has returned for a line of three pieces with nothing to
\* remove, although it holds "<", "&" and "-".
C8_Witness ==
    /\ pc = "sanitize_text"
    /\ IsSanitized(input)
    /\ Len(input) >= 3
    /\ "<" \in {input[i] : i \in 1..Len(input)}
    /\ "&" \in {input[i] : i \in 1..Len(input)}
    /\ result.value = input

-----------------------------------------------------------------------------
(* The cue parser: C4, C5, C6, C7, C10.                                    *)

\* The k-th smallest number of a set of numbers.
NthOf(S, k) == CHOOSE i \in S : Cardinality({j \in S : j <= i}) = k

\* The lines of s[a..b]: what is between its newlines, in order.
SpanLines(s, a, b) ==
    LET nl == {i \in a..b : s[i] = "\n"}
        n  == Cardinality(nl)
    IN  [k \in 1..(n + 1) |->
            SubSeq(s, IF k = 1 THEN a ELSE NthOf(nl, k - 1) + 1,
                      IF k = n + 1 THEN b ELSE NthOf(nl, k) - 1)]

\* The line holds text of the timing-line grammar: two runs of 9 or more
\* characters of 0-9 : . , around " --> ", the second one at the end of the
\* line or before the " " of a cue-settings fragment.
FitsTimingLine(l) ==
    \E m \in 10..Len(l) :
        /\ m + 4 <= Len(l)
        /\ SubSeq(l, m, m + 4) = <<" ", "-", "-", ">", " ">>
        /\ \A i \in (m - 9)..(m - 1) : l[i] \in TimestampClass
        /\ \E b \in (m + 13)..Len(l) :
              /\ \A i \in (m + 5)..b : l[i] \in TimestampClass
              /\ b = Len(l) \/ l[b + 1] = " "

\* How many lines of the block fit the timing-line grammar.
TimingLineCount(s) ==
    LET lines == SpanLines(s, 1, Len(s))
    IN  Cardinality({k \in 1..Len(lines) : FitsTimingLine(lines[k])})

\* The pattern of to_cue matched in the call that returned: it printed its
\* captures.
Matched == pc = "to_cue" /\ Len(stdout) = 1

\* The index of the newline that ends the matched timing line.
TimingLineEnd == stdout[1].g2[2]

\* The two timestamp substrings that the call extracted.
StartText == GroupStr(input, stdout[1].g3)

EndText == GroupStr(input, stdout[1].g4)

CandidateIdentifiers ==
    { <<"1">>,
      <<"1", " ", "-", " ", "C", "u", "e">>,
      <<" ">>,
      <<"0", "0", ":", "0", "5", ".", "0", "0", "0">>,
      <<"0", "0", ":", "0", "5", ".", "0", "0", "0", " ", "-", "-", ">", " ", "0", "0", ":", "0", "6">>,
      <<"0", "0", ":", "0", "5", ".", "0", "0", "0", " ", "-", "-", ">", " ", "0", "0", ":", "0", "6", ".", "0", "0", "0", "x">>,
      <<"0", "0", ":", "0", "5", ".", "0", "0", "0", " ", "-", "-", ">", " ", "0", "0", ":", "0", "6", ".", "0", "0", "0">>,
      <<"a", " ", "0", "0", ":", "0", "5", ".", "0", "0", "0", " ", "-", "-", ">", " ", "0", "0", ":", "0", "6", ".", "0", "0", "0", " ", "b">> }

\* C4: when to_cue returns a Cue for a block, it returns the same Cue for the
\* block with one more first line, an identifier that is not empty and does
\* not fit the timing-line grammar.
C4_IdentifierDiscarded ==
    (pc = "to_cue" /\ result.kind = "Ok") =>
        \A id \in CandidateIdentifiers :
            ~FitsTimingLine(id) =>
                LET r == to_cue(id \o <<"\n">> \o input)
                IN  /\ r.kind = "Ok"
                    /\ r.value.start = result.value.start
                    /\ r.value.end = result.value.end
                    /\ r.value.text = result.value.text

\* What holds of C4: the same for the blocks with one line that fits the
\* timing-line grammar.
IdentifierDiscardedWithOneTimingLine ==
    (pc = "to_cue" /\ result.kind = "Ok" /\ TimingLineCount(input) = 1) =>
        \A id \in CandidateIdentifiers :
            ~FitsTimingLine(id) =>
                LET r == to_cue(id \o <<"\n">> \o input)
                IN  r.kind = "Ok" /\ r.value = result.value

\* C5 as stated: the text of the Cue is every line after the matched timing
\* line, sanitized, joined by "\n"; it has as many lines as follow the timing
\* line.
C5_TextIsEveryFollowingLine ==
    (pc = "to_cue" /\ result.kind = "Ok") =>
        LET lines == SpanLines(input, TimingLineEnd + 1, Len(input))
            text  == result.value.text
        IN  /\ text = Join(CleanLines(lines))
            /\ Len(SpanLines(text, 1, Len(text))) = Len(lines)

\* C5 as amended: the text of the Cue is what follows the matched timing
\* line, without its leading and its trailing white space, line by line
\* sanitized and joined by "\n".
C5_TextIsTrimmedFollowingLines ==
    (pc = "to_cue" /\ result.kind = "Ok") =>
        LET black == {i \in (TimingLineEnd + 1)..Len(input) :
                        input[i] \notin WhiteSpace}
            lines == IF black = {} THEN << <<>> >>
                     ELSE SpanLines(input, NthOf(black, 1),
                                    NthOf(black, Cardinality(black)))
        IN  result.value.text = Join(CleanLines(lines))

\* to_cue has returned a Cue for a block whose timing line is followed by an
\* empty line and then by a line of text.
C5_Witness ==
    /\ pc = "to_cue"
    /\ result.kind = "Ok"
    /\ Len(SpanLines(input, TimingLineEnd + 1, Len(input))) = 2
    /\ input[TimingLineEnd + 1] = "\n"
    /\ result.value.text = <<"h", "i">>

ValidTimeCode(tc) == tc.mm <= 59 /\ tc.ss <= 59 /\ tc.ttt <= 999

\* C6 as stated: to_cue returns the error "not a valid cue" when the lines of
\* the block that fit the timing-line grammar are none or more than one, and
\* when to_timecode rejects one of the two extracted timestamps; the start and
\* the end of a returned Cue are valid.
C6_ZeroOrManyTimingLinesIsError ==
    pc = "to_cue" =>
        /\ TimingLineCount(input) # 1 => result = Err("not a valid cue")
        /\ (Matched /\ "Ok" # to_timecode(StartText).kind)
              => result = Err("not a valid cue")
        /\ (Matched /\ "Ok" # to_timecode(EndText).kind)
              => result = Err("not a valid cue")
        /\ result.kind = "Ok" =>
              ValidTimeCode(result.value.start) /\ ValidTimeCode(result.value.end)

\* What holds of C6: the same without "or more than one".
NoTimingLineIsError ==
    pc = "to_cue" =>
        /\ TimingLineCount(input) = 0 => result = Err("not a valid cue")
        /\ (Matched /\ "Ok" # to_timecode(StartText).kind)
              => result = Err("not a valid cue")
        /\ (Matched /\ "Ok" # to_timecode(EndText).kind)
              => result = Err("not a valid cue")
        /\ result.kind = "Ok" =>
              ValidTimeCode(result.value.start) /\ ValidTimeCode(result.value.end)

CandidateSettings ==
    { <<>>,
      <<" ">>,
      <<" ", "a", ":", "5">>,
      <<" ", "-", "-", ">", " ">>,
      <<" ", "0", "0", ":", "0", "7", ".", "0", "0", "0", " ", "-", "-", ">", " ", "0", "0", ":", "0", "8", ".", "0", "0", "0">> }

\* The block with the cue-settings fragment of its matched timing line (what
\* is between the end timestamp and the end of the line) replaced by f.
WithSettings(f) ==
    SubSeq(input, 1, stdout[1].g4[2] - 1) \o f
        \o SubSeq(input, TimingLineEnd, Len(input))

\* C7: to_cue returns the same, Cue or error, for a block and for the block
\* with another cue-settings fragment, or none, on its timing line.
C7_SettingsDiscarded ==
    Matched => \A f \in CandidateSettings : to_cue(WithSettings(f)) = result

\* to_cue has returned a Cue for a block whose timing line has a fragment of
\* more than a space.
C7_Witness ==
    /\ Matched
    /\ result.kind = "Ok"
    /\ stdout[1].g5.kind = "Some"
    /\ stdout[1].g5.value[2] - stdout[1].g5.value[1] > 1

\* C10: no call writes to an output stream.
C10_NothingWritten == stdout = <<>>

=============================================================================
